---- MODULE Spec2Model ----
(***************************************************************************)
(* The certificate bundler of cfssl (bundler/bundler.go): the Bundler's    *)
(* pools, the AIA walk of fetchIntermediates, verifyChain, Bundle and      *)
(* BundleFromRemote, over a small fixed universe of certificates.          *)
(***************************************************************************)
EXTENDS Integers, Sequences, FiniteSets, TLC

\* Longest certificate list a caller (or a TLS peer) supplies.
MaxCerts == 2
\* Number of top-level calls a caller makes of its own in one behaviour (each
\* may be followed by handing the returned chain back to Bundle).
MaxOps == 1

(***************************************************************************)
(* The certificates.  subj is the subject (name and key) of a certificate, *)
(* iss the subject whose key signed it, sig its signature bytes, urls its  *)
(* AIA IssuingCertificateURL list, pka/pub its public key algorithm and    *)
(* value, hash its signature hash, notAfter its expiry in days from now    *)
(* (negative: expired), cn its subject common name, ski its SubjectKeyId.  *)
(*   R1  self-signed root, SHA-1, trusted by every platform                *)
(*   R2  self-signed root of subject "a", SHA-2, trusted by two platforms  *)
(*   IA  subject "a" cross-signed by R1                                    *)
(*   LA  leaf issued by "a"                                                *)
(*   IB  intermediate issued by R1, SHA-1, served at u2                    *)
(*   LB  leaf issued by "b", AIA u1 (serves LB), u3, u2                    *)
(*   S   self-signed certificate of subject "a", SHA-2, trusted by every   *)
(*       platform, served at u3, AIA u4 (serves LB: the URLs form a cycle) *)
(*   D   leaf with a DSA key                                               *)
(*   E   expired leaf with an ECDSA key                                    *)
(***************************************************************************)
CertIds == {"R1", "R2", "IA", "LA", "IB", "LB", "S", "D", "E"}

Cert ==
  [id \in CertIds |->
    CASE id = "R1" -> [subj |-> "r1", iss |-> "r1", sig |-> "sigR1", urls |-> <<>>,
                       pka |-> "RSA", pub |-> 11, hash |-> "SHA1", notAfter |-> 900,
                       cn |-> "Root One", ski |-> "ab01"]
      [] id = "R2" -> [subj |-> "a", iss |-> "a", sig |-> "sigR2", urls |-> <<>>,
                       pka |-> "RSA", pub |-> 12, hash |-> "SHA2", notAfter |-> 900,
                       cn |-> "CA a", ski |-> "ab02"]
      [] id = "IA" -> [subj |-> "a", iss |-> "r1", sig |-> "sigIA", urls |-> <<>>,
                       pka |-> "RSA", pub |-> 12, hash |-> "SHA2", notAfter |-> 15,
                       cn |-> "CA a", ski |-> "ab02"]
      [] id = "LA" -> [subj |-> "la", iss |-> "a", sig |-> "sigLA", urls |-> <<>>,
                       pka |-> "RSA", pub |-> 1, hash |-> "SHA2", notAfter |-> 400,
                       cn |-> "la.example.com", ski |-> "ab04"]
      [] id = "IB" -> [subj |-> "b", iss |-> "r1", sig |-> "sigIB", urls |-> <<>>,
                       pka |-> "RSA", pub |-> 13, hash |-> "SHA1", notAfter |-> 800,
                       cn |-> "CA b", ski |-> "ab05"]
      [] id = "LB" -> [subj |-> "lb", iss |-> "b", sig |-> "sigLB",
                       urls |-> <<"http://x/u1", "http://x/u3", "http://x/u2">>,
                       pka |-> "RSA", pub |-> 2, hash |-> "SHA2", notAfter |-> 400,
                       cn |-> "lb.example.com", ski |-> "ab06"]
      [] id = "S"  -> [subj |-> "a", iss |-> "a", sig |-> "sigS",
                       urls |-> <<"http://x/u4">>,
                       pka |-> "RSA", pub |-> 12, hash |-> "SHA2", notAfter |-> 300,
                       cn |-> "CA a", ski |-> "ab02"]
      [] id = "D"  -> [subj |-> "d", iss |-> "a", sig |-> "sigD", urls |-> <<>>,
                       pka |-> "DSA", pub |-> 3, hash |-> "SHA1", notAfter |-> 400,
                       cn |-> "d.example.com", ski |-> "ab09"]
      [] OTHER     -> [subj |-> "e", iss |-> "a", sig |-> "sigE", urls |-> <<>>,
                       pka |-> "ECDSA", pub |-> 2, hash |-> "SHA2", notAfter |-> -1,
                       cn |-> "e.example.com", ski |-> "ab0a"]]

\* What each AIA URL answers with when it answers.
URLs == {"http://x/u1", "http://x/u2", "http://x/u3", "http://x/u4"}

Serves ==
  [u \in URLs |->
    CASE u = "http://x/u1" -> "LB"
      [] u = "http://x/u2" -> "IB"
      [] u = "http://x/u3" -> "S"
      [] OTHER             -> "LB"]

\* filepath.Base of the URLs above.
Base(u) ==
  CASE u = "http://x/u1" -> "u1"
    [] u = "http://x/u2" -> "u2"
    [] u = "http://x/u3" -> "u3"
    [] OTHER             -> "u4"

(***************************************************************************)
(* Sequence helpers.                                                       *)
(***************************************************************************)
Range(s) == {s[i] : i \in 1..Len(s)}

RECURSIVE Flatten(_)
Flatten(ss) == IF ss = <<>> THEN <<>> ELSE Head(ss) \o Flatten(Tail(ss))

Min(S) == CHOOSE x \in S : \A y \in S : x <= y

Max(S) == CHOOSE x \in S : \A y \in S : x >= y

RECURSIVE SumSeq(_)
SumSeq(s) == IF s = <<>> THEN 0 ELSE Head(s) + SumSeq(Tail(s))

\* Sequences over S of length at most n.
SeqsUpTo(S, n) == UNION {[1..k -> S] : k \in 0..n}

(***************************************************************************)
(* crypto/x509 as the bundler uses it.  A CertPool is the list of its      *)
(* certificates in insertion order; AddCert ignores a certificate the pool *)
(* already holds.  Verify builds every chain from a certificate through    *)
(* the intermediate pool to a certificate of the root pool, parents drawn  *)
(* from the root pool first and then from the intermediate pool, in pool   *)
(* order; a parent is a certificate whose subject signed the child, an     *)
(* intermediate is not used twice in one chain, and an expired certificate *)
(* is not used.  An expired leaf is CertificateInvalid, no chain at all is *)
(* UnknownAuthority.                                                       *)
(***************************************************************************)
AddCert(pool, c) == IF c \in Range(pool) THEN pool ELSE Append(pool, c)

Expired(c) == Cert[c].notAfter < 0

IsParent(p, c) == Cert[p].subj = Cert[c].iss /\ ~Expired(p)

RECURSIVE buildChains(_, _, _)
buildChains(c, currentChain, b) ==
  LET roots == SelectSeq(b.RootPool, LAMBDA r : IsParent(r, c))
      ints  == SelectSeq(b.IntermediatePool,
                         LAMBDA i : IsParent(i, c) /\ i \notin Range(currentChain))
      rootChains == [k \in 1..Len(roots) |-> Append(currentChain, roots[k])]
      intChains  == [k \in 1..Len(ints) |->
                       buildChains(ints[k], Append(currentChain, ints[k]), b)]
  IN  rootChains \o Flatten(intChains)

\* VerifyOptions hands Verify the Bundler's two pools.
VerifyOptions(b) == [Roots |-> b.RootPool, Intermediates |-> b.IntermediatePool]

Verify(c, b) ==
  LET opts == VerifyOptions(b)
      pools == [RootPool |-> opts.Roots, IntermediatePool |-> opts.Intermediates]
  IN  IF Expired(c)
      THEN [chains |-> <<>>, err |-> "CertificateInvalid"]
      ELSE LET chains == buildChains(c, <<c>>, pools)
           IN  IF chains = <<>>
               THEN [chains |-> <<>>, err |-> "UnknownAuthority"]
               ELSE [chains |-> chains, err |-> "nil"]

isSelfSigned(c) == Cert[c].iss = Cert[c].subj

isChainRootNode(c) == isSelfSigned(c)

(***************************************************************************)
(* The network and the stash.  down is the set of AIA URLs that answer     *)
(* with an error.  A fetchedIntermediate is [Cert, Name]; a Name is the    *)
(* list of the pieces of the file name, empty for the leaf of the input.   *)
(***************************************************************************)
NoName == <<>>

\* strings.Replace of "." and " " by "" in the common name.
Sanitize(cn) ==
  CASE cn = "Root One"       -> "RootOne"
    [] cn = "CA a"           -> "CAa"
    [] cn = "CA b"           -> "CAb"
    [] cn = "la.example.com" -> "laexamplecom"
    [] cn = "lb.example.com" -> "lbexamplecom"
    [] cn = "d.example.com"  -> "dexamplecom"
    [] OTHER                 -> "eexamplecom"

fetchRemoteCertificate(url, down) ==
  IF url \in down
  THEN [err |-> TRUE, Cert |-> "R1", Name |-> NoName]
  ELSE [err |-> FALSE, Cert |-> Serves[url], Name |-> <<Base(url)>>]

(***************************************************************************)
(* verifyChain, from position k of the chain on.  wok says whether the     *)
(* stash writes of this call succeed.  The result is the verdict with the  *)
(* Bundler and the stash as the call leaves them.                          *)
(***************************************************************************)
RECURSIVE verifyChainFrom(_, _, _, _, _)
verifyChainFrom(b, stash, chain, k, wok) ==
  IF k > Len(chain)
  THEN [ok |-> TRUE, b |-> b, stash |-> stash]
  ELSE
    LET cert == chain[k]
        sig  == Cert[cert.Cert].sig
    IN
    IF sig \in b.KnownIssuers
    THEN verifyChainFrom(b, stash, chain, k + 1, wok)
    ELSE IF Verify(cert.Cert, b).err # "nil"
    THEN [ok |-> FALSE, b |-> b, stash |-> stash]
    ELSE IF k = 1 /\ isChainRootNode(cert.Cert)
    THEN verifyChainFrom(b, stash, chain, k + 1, wok)
    ELSE
      LET b1 == [b EXCEPT !.IntermediatePool = AddCert(@, cert.Cert)]
      IN
      IF cert.Name = NoName
      THEN verifyChainFrom(b1, stash, chain, k + 1, wok)
      ELSE
        LET b2 == [b1 EXCEPT !.KnownIssuers = @ \cup {sig}]
            st == IF wok THEN stash \cup {[Name |-> cert.Name, Cert |-> cert.Cert]}
                         ELSE stash
        IN  verifyChainFrom(b2, st, chain, k + 1, wok)

\* verifyChain as it would be if a root at the top of the chain were trusted.
verifyChainTrustingTop(b, stash, chain, wok) ==
  IF chain # <<>> /\ isChainRootNode(chain[1].Cert)
  THEN verifyChainFrom([b EXCEPT !.RootPool = AddCert(@, chain[1].Cert)],
                       stash, chain, 1, wok)
  ELSE verifyChainFrom(b, stash, chain, 1, wok)

\* verifyChain as it would be if a verified root at the top of the chain were
\* added to the intermediate pool.
verifyChainAdmittingTop(b, stash, chain, wok) ==
  IF /\ chain # <<>> /\ isChainRootNode(chain[1].Cert)
     /\ Cert[chain[1].Cert].sig \notin b.KnownIssuers
     /\ Verify(chain[1].Cert, b).err = "nil"
  THEN verifyChainFrom([b EXCEPT !.IntermediatePool = AddCert(@, chain[1].Cert)],
                       stash, chain, 2, wok)
  ELSE verifyChainFrom(b, stash, chain, 1, wok)

\* verifyChain as it would be if it added the first unknown certificate to the
\* intermediate pool before verifying it.
verifyChainAddingBeforeVerify(b, stash, chain, wok) ==
  IF chain # <<>> /\ Cert[chain[1].Cert].sig \notin b.KnownIssuers
  THEN verifyChainFrom([b EXCEPT !.IntermediatePool = AddCert(@, chain[1].Cert)],
                       stash, chain, 1, wok)
  ELSE verifyChainFrom(b, stash, chain, 1, wok)

\* verifyChain as it would be if it stored the certificates of a chain whether
\* they verify or not.
verifyChainStoringAll(b, stash, chain, wok) ==
  LET r == verifyChainFrom(b, stash, chain, 1, wok)
      RECURSIVE addAll(_, _)
      addAll(pl, k) == IF k > Len(chain) THEN pl
                       ELSE addAll(AddCert(pl, chain[k].Cert), k + 1)
  IN  [r EXCEPT !.b.IntermediatePool = addAll(@, 1)]

verifyChain(b, stash, chain, wok) == verifyChainFrom(b, stash, chain, 1, wok)

(***************************************************************************)
(* The ubiquity package: per-certificate ranks, per-chain aggregates, the  *)
(* platforms and the filter.  Three platforms of equal weight that all     *)
(* accept SHA-2 and ECDSA-256: all trust R1 and S, the first two trust R2  *)
(* as well.                                                                *)
(***************************************************************************)
SHA2Ubiquity == 70

\* SHA-1 as it would rank if it were less ubiquitous than SHA-2.
SHA1UbiquityBelowSHA2 == SHA2Ubiquity - 1

SHA1Ubiquity == 100
UnknownHashUbiquity == 0

RSAUbiquity == 100
ECDSA256Ubiquity == 2
UnknownAlgoUbiquity == 0

hashUbiquity(c) ==
  CASE Cert[c].hash = "SHA1" -> SHA1Ubiquity
    [] Cert[c].hash = "SHA2" -> SHA2Ubiquity
    [] OTHER                 -> UnknownHashUbiquity

keyAlgoUbiquity(c) ==
  CASE Cert[c].pka = "RSA"   -> RSAUbiquity
    [] Cert[c].pka = "ECDSA" -> ECDSA256Ubiquity
    [] OTHER                 -> UnknownAlgoUbiquity

hashPriority(c) ==
  CASE Cert[c].hash = "SHA1" -> 10
    [] Cert[c].hash = "SHA2" -> 20
    [] OTHER                 -> 0

keyAlgoPriority(c) ==
  CASE Cert[c].pka = "RSA"   -> 10
    [] Cert[c].pka = "ECDSA" -> 20
    [] OTHER                 -> 0

ChainHashUbiquity(chain) == Min({hashUbiquity(chain[i]) : i \in 1..Len(chain)})

ChainKeyAlgoUbiquity(chain) == Min({keyAlgoUbiquity(chain[i]) : i \in 1..Len(chain)})

HashPriority(chain) ==
  SumSeq([i \in 1..Len(chain) |-> hashPriority(chain[i])]) \div Len(chain)

KeyAlgoPriority(chain) ==
  SumSeq([i \in 1..Len(chain) |-> keyAlgoPriority(chain[i])]) \div Len(chain)

ChainExpiry(chain) == Min({Cert[chain[i]].notAfter : i \in 1..Len(chain)})

PlatformNames == <<"MacroSoft", "Godzilla", "Pineapple">>

Platforms ==
  [n \in Range(PlatformNames) |->
    [Weight   |-> 100,
     HashAlgo |-> SHA2Ubiquity,
     KeyAlgo  |-> ECDSA256Ubiquity,
     KeyStore |-> IF n = "Pineapple" THEN {"sigR1", "sigS"}
                  ELSE {"sigR1", "sigR2", "sigS"}]]

Trusts(n, root) == Cert[root].sig \in Platforms[n].KeyStore

CrossPlatformUbiquity(chain) ==
  LET root == chain[Len(chain)]
  IN  SumSeq([i \in 1..Len(PlatformNames) |->
        LET P == Platforms[PlatformNames[i]]
        IN  IF /\ Trusts(PlatformNames[i], root)
               /\ P.HashAlgo <= ChainHashUbiquity(chain)
               /\ P.KeyAlgo <= ChainKeyAlgoUbiquity(chain)
            THEN P.Weight ELSE 0])

UntrustedPlatforms(root) ==
  SelectSeq(PlatformNames, LAMBDA n : ~Trusts(n, root))

\* The rank each comparator orders chains by (higher wins).
CompareChainLength(chain) == 0 - Len(chain)

CompareChainExpiry(chain) == ChainExpiry(chain)

CompareChainCryptoSuite(chain) == HashPriority(chain) + KeyAlgoPriority(chain)

ComparePlatformUbiquity(chain) == CrossPlatformUbiquity(chain)

CompareChainHashUbiquity(chain) == ChainHashUbiquity(chain)

CompareChainKeyAlgoUbiquity(chain) == ChainKeyAlgoUbiquity(chain)

\* The latest minimum NotAfter of the intermediates (chain minus leaf and root).
CompareExpiryUbiquity(chain) ==
  IF Len(chain) <= 2 THEN 0
  ELSE Min({Cert[chain[i]].notAfter : i \in 2..(Len(chain) - 1)})

\* The rank the comparator named f gives a chain.
rankBy(f, chain) ==
  CASE f = "CompareChainLength"          -> CompareChainLength(chain)
    [] f = "CompareChainExpiry"          -> CompareChainExpiry(chain)
    [] f = "CompareChainCryptoSuite"     -> CompareChainCryptoSuite(chain)
    [] f = "ComparePlatformUbiquity"     -> ComparePlatformUbiquity(chain)
    [] f = "CompareChainHashUbiquity"    -> CompareChainHashUbiquity(chain)
    [] f = "CompareChainKeyAlgoUbiquity" -> CompareChainKeyAlgoUbiquity(chain)
    [] OTHER                             -> CompareExpiryUbiquity(chain)

\* The chains of cs tied for the highest rank, in their order.
tiedForBest(cs, f) ==
  LET best == Max({rankBy(f, cs[i]) : i \in 1..Len(cs)})
  IN  SelectSeq(cs, LAMBDA ch : rankBy(f, ch) = best)

\* Filter keeps, in their order, the chains tied for the highest rank (cs is
\* chains, evaluated once).
Filter(chains, f) ==
  CHOOSE out \in {IF Len(cs) <= 1 THEN cs ELSE tiedForBest(cs, f) : cs \in {chains}} :
    TRUE

\* The optimal cascade as it would be if it stopped after the chain lengths.
optimalChainsByLengthOnly(chains) == Filter(chains, "CompareChainLength")

optimalChains(chains) ==
  LET c1 == Filter(chains, "CompareChainLength")
      c2 == Filter(c1, "CompareChainExpiry")
  IN  Filter(c2, "CompareChainCryptoSuite")

\* The ubiquitous cascade as it would be if the chain lengths came first.
ubiquitousChainsShortestFirst(chains) ==
  LET c1 == Filter(chains, "CompareChainLength")
      c2 == Filter(c1, "ComparePlatformUbiquity")
  IN  optimalChains(c2)

ubiquitousChains(chains) ==
  LET c1 == Filter(chains, "ComparePlatformUbiquity")
      c2 == Filter(c1, "CompareChainLength")
      c3 == Filter(c2, "CompareChainHashUbiquity")
      c4 == Filter(c3, "CompareChainKeyAlgoUbiquity")
      c5 == Filter(c4, "CompareExpiryUbiquity")
  IN  optimalChains(c5)

(***************************************************************************)
(* Bundle's pure parts.                                                    *)
(***************************************************************************)
NoKey == [type |-> "none", pub |-> 0]

Keys == {NoKey, [type |-> "RSA", pub |-> 1], [type |-> "ECDSA", pub |-> 1],
         [type |-> "ECDSA", pub |-> 2]}

Flavors == {"optimal", "ubiquitous", ""}

\* The key and flavor a caller passes: every key, and every flavor without a key.
KeyFlavors ==
  {<<k, "optimal">> : k \in Keys} \cup {<<NoKey, f>> : f \in Flavors}

\* The pairing switch as it would be if it compared key types only.
pairingCheckTypeOnly(cert, key) ==
  IF key # NoKey
  THEN CASE Cert[cert].pka = "RSA" ->
              IF key.type # "RSA" THEN "KeyMismatch" ELSE "nil"
         [] Cert[cert].pka = "ECDSA" ->
              IF key.type # "ECDSA" THEN "KeyMismatch" ELSE "nil"
         [] OTHER -> "NotRSAOrECC"
  ELSE CASE Cert[cert].pka = "RSA"   -> "nil"
         [] Cert[cert].pka = "ECDSA" -> "nil"
         [] OTHER                    -> "NotRSAOrECC"

\* The key/certificate pairing switch: the error it returns, or "nil".
pairingCheck(cert, key) ==
  IF key # NoKey
  THEN CASE Cert[cert].pka = "RSA" ->
              IF key.type # "RSA" THEN "KeyMismatch"
              ELSE IF Cert[cert].pub # key.pub THEN "KeyMismatch" ELSE "nil"
         [] Cert[cert].pka = "ECDSA" ->
              IF key.type # "ECDSA" THEN "KeyMismatch"
              ELSE IF Cert[cert].pub # key.pub THEN "KeyMismatch" ELSE "nil"
         [] OTHER -> "NotRSAOrECC"
  ELSE CASE Cert[cert].pka = "RSA"   -> "nil"
         [] Cert[cert].pka = "ECDSA" -> "nil"
         [] OTHER                    -> "NotRSAOrECC"

\* Days in the 720 hours of checkExpiringCerts.
ExpiringDays == 30

\* checkExpiringCerts as it would be if it looked at the intermediates only.
checkExpiringIntermediates(chain) ==
  LET idx == [i \in 1..Len(chain) |-> i - 1]
  IN  SelectSeq(idx, LAMBDA i : i > 0 /\ Cert[chain[i + 1]].notAfter < ExpiringDays)

\* Indices (from 0) of the certificates of chain that expire within 30 days.
checkExpiringCerts(chain) ==
  LET idx == [i \in 1..Len(chain) |-> i - 1]
  IN  SelectSeq(idx, LAMBDA i : Cert[chain[i + 1]].notAfter < ExpiringDays)

\* fmt.Sprintf("%X", SubjectKeyId).
HexUpper(ski) ==
  CASE ski = "ab01" -> "AB01"
    [] ski = "ab02" -> "AB02"
    [] ski = "ab04" -> "AB04"
    [] ski = "ab05" -> "AB05"
    [] ski = "ab06" -> "AB06"
    [] ski = "ab09" -> "AB09"
    [] OTHER        -> "AB0A"

getSKIs(chain, indices) ==
  [k \in 1..Len(indices) |-> HexUpper(Cert[chain[indices[k] + 1]].ski)]

\* The positions the expiry message names.
expirationWarning(expiringIntermediates) ==
  [kind |-> "expiring",
   detail |-> [k \in 1..Len(expiringIntermediates) |-> expiringIntermediates[k] + 1]]

untrustedPlatformsWarning(platforms) == [kind |-> "untrusted", detail |-> platforms]

sha2Warning == [kind |-> "sha2", detail |-> <<>>]

\* The chain a flavor selects among the verifier's chains.
matchingChains(chains, flavor) ==
  CASE flavor = "optimal" -> optimalChains(chains)
    [] OTHER              -> ubiquitousChains(chains)

\* The selected chain as it would be handed out with its root.
stripRootKeepingRoot(full) == full

\* "don't include the root in the chain"
stripRoot(full) == SubSeq(full, 1, Len(full) - 1)

\* The comparison as it would be if it compared lengths only.
isRebundledByLength(chain, certs) == Len(chain) # Len(certs)

\* The comparison as it would be if it compared the certificate objects, which
\* the verifier takes from the pools, not from the input.
isRebundledByPointer(chain, certs) == Len(chain) # Len(certs) \/ chain # <<>>

\* "Check if bundled one is different from the input."
isRebundled(chain, certs) ==
  IF Len(chain) # Len(certs) THEN TRUE
  ELSE \E i \in 1..Len(chain) : Cert[certs[i]].sig # Cert[chain[i]].sig

NoRet ==
  [bundle |-> FALSE, err |-> "pending", full |-> <<>>, chain |-> <<>>,
   rebundled |-> FALSE, code |-> {}, expiring |-> <<>>, skis |-> <<>>,
   untrusted |-> <<>>, messages |-> <<>>]

Failure(e) == [NoRet EXCEPT !.err = e]

\* The assembly as it would be if the hash bit were set for a SHA-1-signed
\* certificate in the chain.
bundleOfFlaggingSHA1(certs, full) ==
  LET chain == stripRoot(full)
      expiringCerts == checkExpiringCerts(chain)
      untrusted == UntrustedPlatforms(full[Len(full)])
      weak == \E i \in 1..Len(full) : Cert[full[i]].hash = "SHA1"
      code == (IF Len(expiringCerts) > 0 THEN {"expiring"} ELSE {})
              \cup (IF weak \/ Len(untrusted) > 0 THEN {"not-ubiquitous"} ELSE {})
      messages ==
        (IF Len(expiringCerts) > 0 THEN <<expirationWarning(expiringCerts)>> ELSE <<>>)
        \o (IF weak THEN <<sha2Warning>> ELSE <<>>)
        \o (IF Len(untrusted) > 0 THEN <<untrustedPlatformsWarning(untrusted)>> ELSE <<>>)
  IN  [bundle |-> TRUE, err |-> "nil", full |-> full, chain |-> chain,
       rebundled |-> isRebundled(chain, certs), code |-> code,
       expiring |-> expiringCerts, skis |-> getSKIs(chain, expiringCerts),
       untrusted |-> untrusted, messages |-> messages]

\* Bundle after the selection: the bundle it returns for the selected chain.
bundleOf(certs, full) ==
  LET chain == stripRoot(full)
      expiringCerts == checkExpiringCerts(chain)
      root == full[Len(full)]
      untrusted == UntrustedPlatforms(root)
      weak == ChainHashUbiquity(full) <= SHA2Ubiquity
      code == (IF Len(expiringCerts) > 0 THEN {"expiring"} ELSE {})
              \cup (IF weak THEN {"not-ubiquitous"} ELSE {})
              \cup (IF Len(untrusted) > 0 THEN {"not-ubiquitous"} ELSE {})
      messages ==
        (IF Len(expiringCerts) > 0 THEN <<expirationWarning(expiringCerts)>> ELSE <<>>)
        \o (IF weak THEN <<sha2Warning>> ELSE <<>>)
        \o (IF Len(untrusted) > 0 THEN <<untrustedPlatformsWarning(untrusted)>> ELSE <<>>)
  IN  [bundle |-> TRUE, err |-> "nil", full |-> full, chain |-> chain,
       rebundled |-> isRebundled(chain, certs), code |-> code,
       expiring |-> expiringCerts, skis |-> getSKIs(chain, expiringCerts),
       untrusted |-> untrusted, messages |-> messages]

\* Bundle from the selection on: the bundle it returns for the verifier's chains.
assemble(certs, flavor, chains) == bundleOf(certs, matchingChains(chains, flavor)[1])

(***************************************************************************)
(* fetchIntermediates' pure parts.                                         *)
(***************************************************************************)
\* The stash file name of certificate i (from 0) of the input.
inputName(certs, i) ==
  IF i > 0 THEN <<Sanitize(Cert[certs[i + 1]].cn), ".crt">> ELSE NoName

\* The reversed partial bundle: the last certificate of the input first.
RECURSIVE initialChain(_, _)
initialChain(certs, i) ==
  IF i >= Len(certs) THEN <<>>
  ELSE Append(initialChain(certs, i + 1),
              [Cert |-> certs[i + 1], Name |-> inputName(certs, i)])

\* seen as it would start if the signatures of the input were not marked.
initialSeenEmpty(certs) == {}

initialSeen(certs) == {Cert[certs[i]].sig : i \in 1..Len(certs)}

\* The scan of the AIA URLs of the head of the chain, from URL k on: whether a
\* certificate was prepended (advanced), which, the URLs requested, and seen.
RECURSIVE walkAIA(_, _, _, _, _)
\* The scan as it would be if only URLs, not signatures, were marked seen.
walkAIAByURLOnly(urls, k, seen, down, log) ==
  IF k > Len(urls)
  THEN [advanced |-> FALSE, crt |-> [Cert |-> "R1", Name |-> NoName],
        seen |-> seen, log |-> log]
  ELSE
    LET url == urls[k]
    IN  IF url \in seen
        THEN walkAIA(urls, k + 1, seen, down, log)
        ELSE
          LET crt == fetchRemoteCertificate(url, down)
              log1 == Append(log, url)
          IN  IF crt.err
              THEN walkAIA(urls, k + 1, seen, down, log1)
              ELSE [advanced |-> TRUE,
                    crt |-> [Cert |-> crt.Cert, Name |-> crt.Name],
                    seen |-> seen \cup {url},
                    log |-> log1]

\* The scan as it would be if only signatures, not URLs, were marked seen.
walkAIABySignatureOnly(urls, k, seen, down, log) ==
  IF k > Len(urls)
  THEN [advanced |-> FALSE, crt |-> [Cert |-> "R1", Name |-> NoName],
        seen |-> seen, log |-> log]
  ELSE
    LET url == urls[k]
        crt == fetchRemoteCertificate(url, down)
        log1 == Append(log, url)
    IN  IF crt.err
        THEN walkAIA(urls, k + 1, seen, down, log1)
        ELSE IF Cert[crt.Cert].sig \in seen
        THEN walkAIA(urls, k + 1, seen, down, log1)
        ELSE [advanced |-> TRUE,
              crt |-> [Cert |-> crt.Cert, Name |-> crt.Name],
              seen |-> seen \cup {Cert[crt.Cert].sig},
              log |-> log1]

walkAIA(urls, k, seen, down, log) ==
  IF k > Len(urls)
  THEN [advanced |-> FALSE, crt |-> [Cert |-> "R1", Name |-> NoName],
        seen |-> seen, log |-> log]
  ELSE
    LET url == urls[k]
    IN  IF url \in seen
        THEN walkAIA(urls, k + 1, seen, down, log)
        ELSE
          LET crt == fetchRemoteCertificate(url, down)
              log1 == Append(log, url)
          IN  IF crt.err
              THEN walkAIA(urls, k + 1, seen, down, log1)
              ELSE IF Cert[crt.Cert].sig \in seen
              THEN walkAIA(urls, k + 1, seen, down, log1)
              ELSE [advanced |-> TRUE,
                    crt |-> [Cert |-> crt.Cert, Name |-> crt.Name],
                    seen |-> seen \cup {url, Cert[crt.Cert].sig},
                    log |-> log1]

(***************************************************************************)
(* The state.                                                              *)
(*   b            the Bundler: RootPool, IntermediatePool, KnownIssuers    *)
(*   stash        the files of the stash directory, as [Name, Cert]        *)
(*   stashDir     whether the stash directory exists                       *)
(*   down         the AIA URLs that answer with an error                   *)
(*   pc           "idle", "bundle" (Bundle is entered), "walk" (inside the *)
(*                loop of fetchIntermediates), "done" (the call returned)  *)
(*   op           the top-level operation under way                        *)
(*   certs, key, flavor   the arguments of Bundle                          *)
(*   chain, seen, foundChains   the locals of fetchIntermediates           *)
(*   ctx          who called fetchIntermediates: "bundle" or "remote"      *)
(*   dialError    whether BundleFromRemote recorded a failed first dial    *)
(*   ret          what the top-level call returned                         *)
(* and, to state the claims,                                               *)
(*   roots0       the root pool as NewBundlerFromPEM left it               *)
(*   opStart      the Bundler and stash when the top-level call began      *)
(*   atBundle     the Bundler, stash and counters when Bundle was entered  *)
(*   fetchLog     the URLs fetchRemoteCertificate was called on, this walk *)
(*   fetchNew     for each of them, whether it returned a certificate the  *)
(*                walk had not seen and prepended                          *)
(*   walkLen      the length of the list this walk was called on           *)
(*   nVC          verifyChain calls of this walk                           *)
(*   nFetch, nVCop  fetches and verifyChain calls of this top-level call   *)
(*   nVerify      Verify calls made by Bundle itself                       *)
(*   firstErr, walkRet, secondErr   what Bundle's first Verify, its walk   *)
(*                and its second Verify returned ("none": not reached)     *)
(*   dials        tls.Dial calls of BundleFromRemote                       *)
(*   handshake    how its dials and its VerifyHostname went                *)
(*   rebundleOf   the chain this call re-bundles, if it does               *)
(*   nOps         top-level calls the caller made of its own               *)
(***************************************************************************)
VARIABLES b, stash, stashDir, down, pc, op, certs, key, flavor,
          chain, seen, foundChains, ctx, dialError, ret,
          roots0, opStart, atBundle, fetchLog, fetchNew, walkLen, nVC, nFetch, nVCop,
          nVerify, firstErr, walkRet, secondErr, dials, handshake, rebundleOf, nOps

vars == <<b, stash, stashDir, down, pc, op, certs, key, flavor,
          chain, seen, foundChains, ctx, dialError, ret,
          roots0, opStart, atBundle, fetchLog, fetchNew, walkLen, nVC, nFetch, nVCop,
          nVerify, firstErr, walkRet, secondErr, dials, handshake, rebundleOf, nOps>>

\* No dial was made.
NoHandshake == [first |-> "none", second |-> "none", hostname |-> "none"]

\* The root and intermediate bundles a Bundler is built from, with the network.
Scenarios ==
  { [roots |-> <<"R1", "R2">>, ints |-> <<"R1", "IA", "LB">>,
     down |-> {"http://x/u1"}, dir |-> FALSE],
    [roots |-> <<"R1">>, ints |-> <<"LB">>,
     down |-> {"http://x/u2"}, dir |-> TRUE],
    [roots |-> <<"R1", "IA">>, ints |-> <<"IA">>,
     down |-> {}, dir |-> FALSE],
    [roots |-> <<"S", "R2">>, ints |-> <<"IA">>,
     down |-> {}, dir |-> TRUE] }

\* NewBundlerFromPEM.
NewBundlerFromPEM(roots, intermediates) ==
  [RootPool         |-> roots,
   IntermediatePool |-> intermediates,
   KnownIssuers     |-> {Cert[c].sig : c \in Range(roots) \cup Range(intermediates)}]

Init ==
  \E sc \in Scenarios :
    /\ b = NewBundlerFromPEM(sc.roots, sc.ints)
    /\ roots0 = sc.roots
    /\ stash = {}
    /\ stashDir = sc.dir
    /\ down = sc.down
    /\ pc = "idle" /\ op = "none"
    /\ certs = <<>> /\ key = NoKey /\ flavor = ""
    /\ chain = <<>> /\ seen = {} /\ foundChains = 0 /\ ctx = "none"
    /\ dialError = FALSE
    /\ ret = NoRet
    /\ opStart = [b |-> b, stash |-> {}]
    /\ atBundle = [b |-> b, stash |-> {}, nFetch |-> 0, nVCop |-> 0]
    /\ fetchLog = <<>> /\ fetchNew = <<>> /\ walkLen = 0 /\ nVC = 0 /\ nFetch = 0 /\ nVCop = 0
    /\ nVerify = 0
    /\ firstErr = "none" /\ walkRet = "none" /\ secondErr = "none"
    /\ dials = 0 /\ handshake = NoHandshake /\ rebundleOf = <<>> /\ nOps = 0

\* The status message BundleFromRemote adds for a failed rigid handshake.
dialErrorMessage == [kind |-> "dial", detail |-> <<>>]

\* The return of BundleFromRemote as it would be if the failed first dial were
\* dropped.
ReturnedWithoutDialError(r, o, de) == r

\* What the top-level call o returns when Bundle returns r (de: whether the
\* first dial had failed).
Returned(r, o, de) ==
  IF o = "BundleFromRemote" /\ r.bundle /\ de
  THEN [r EXCEPT !.messages = Append(@, dialErrorMessage)]
  ELSE r

\* The entry of fetchIntermediates on cs: the stash directory is created when it
\* is missing (mk: whether MkdirAll succeeds), then chain and seen are built.
enterWalk(cs, mk) ==
  IF ~stashDir /\ ~mk
  THEN [entered |-> FALSE, stashDir |-> FALSE, chain |-> <<>>, seen |-> {}]
  ELSE [entered |-> TRUE, stashDir |-> TRUE,
        chain |-> initialChain(cs, 0), seen |-> initialSeen(cs)]

MkdirOutcomes == IF stashDir THEN {TRUE} ELSE BOOLEAN

\* Bundle from its first Verify on as it would be if every error of the
\* verifier started the walk.
bundleVerifyWalkingOnAnyError(cs, f, mk, v) ==
  IF v.err = "nil"
  THEN [ret |-> assemble(cs, f, v.chains), first |-> v.err, walk |-> FALSE]
  ELSE IF enterWalk(cs, mk).entered
  THEN [ret |-> NoRet, first |-> v.err, walk |-> TRUE]
  ELSE [ret |-> Failure("VerifyFailed"), first |-> v.err, walk |-> FALSE]

\* Bundle(cs, f) from the return of its first Verify, v, on.
bundleVerify(cs, f, mk, v) ==
  IF v.err = "nil"
  THEN [ret |-> assemble(cs, f, v.chains), first |-> v.err, walk |-> FALSE]
  ELSE IF v.err # "UnknownAuthority"
  THEN [ret |-> Failure("VerifyFailed"), first |-> v.err, walk |-> FALSE]
  ELSE IF enterWalk(cs, mk).entered
  THEN [ret |-> NoRet, first |-> v.err, walk |-> TRUE]
  ELSE [ret |-> Failure("VerifyFailed"), first |-> v.err, walk |-> FALSE]

\* Bundle as it would be without its check for a self-signed leaf.
bundleEntryWithoutSelfSigned(cs, k, f, mk) ==
  IF cs = <<>> THEN [ret |-> Failure("panic"), first |-> "none", walk |-> FALSE]
  ELSE IF pairingCheck(cs[1], k) # "nil"
  THEN [ret |-> Failure(pairingCheck(cs[1], k)), first |-> "none", walk |-> FALSE]
  ELSE bundleVerify(cs, f, mk, Verify(cs[1], b))

\* Bundle(cs, k, f), from its entry to its return or to the loop of
\* fetchIntermediates.
bundleEntry(cs, k, f, mk) ==
  IF cs = <<>> THEN [ret |-> Failure("panic"), first |-> "none", walk |-> FALSE]
  ELSE
    LET cert == cs[1]
        pe == pairingCheck(cert, k)
    IN
    IF pe # "nil" THEN [ret |-> Failure(pe), first |-> "none", walk |-> FALSE]
    ELSE IF isSelfSigned(cert)
    THEN [ret |-> Failure("SelfSigned"), first |-> "none", walk |-> FALSE]
    ELSE bundleVerify(cs, f, mk, Verify(cert, b))

\* The step that runs bundleEntry inside the top-level call o; fresh says that
\* no walk of this call came before.
EnterBundle(cs, k, f, mk, o, de, fresh) ==
  \E e \in {bundleEntry(cs, k, f, mk)}, w \in {enterWalk(cs, mk)} :
  /\ atBundle' = [b |-> b, stash |-> stash,
                  nFetch |-> IF fresh THEN 0 ELSE nFetch,
                  nVCop |-> IF fresh THEN 0 ELSE nVCop]
  /\ firstErr' = e.first
  /\ nVerify' = IF e.first = "none" THEN 0 ELSE 1
  /\ secondErr' = "none"
  /\ IF e.walk
     THEN /\ pc' = "walk" /\ ctx' = "bundle" /\ ret' = NoRet
          /\ stashDir' = w.stashDir /\ chain' = w.chain /\ seen' = w.seen
          /\ foundChains' = 0 /\ fetchLog' = <<>> /\ fetchNew' = <<>> /\ nVC' = 0
          /\ walkLen' = Len(cs)
          /\ walkRet' = "running"
     ELSE /\ pc' = "done" /\ ret' = Returned(e.ret, o, de)
          /\ walkRet' = IF e.first = "UnknownAuthority" THEN "mkdir" ELSE "none"
          /\ stashDir' = stashDir
          /\ IF fresh
             THEN /\ chain' = <<>> /\ seen' = {} /\ ctx' = "none"
                  /\ foundChains' = 0 /\ fetchLog' = <<>> /\ fetchNew' = <<>> /\ nVC' = 0 /\ walkLen' = 0
             ELSE UNCHANGED <<chain, seen, ctx, foundChains, fetchLog, fetchNew, nVC, walkLen>>

\* A caller calls Bundle(cs, k, f).
CallBundle ==
  \E cs \in SeqsUpTo(CertIds, MaxCerts), kf \in KeyFlavors, mk \in MkdirOutcomes :
    /\ pc = "idle" /\ nOps < MaxOps
    /\ op' = "Bundle"
    /\ certs' = cs /\ key' = kf[1] /\ flavor' = kf[2]
    /\ dialError' = FALSE /\ dials' = 0 /\ handshake' = NoHandshake /\ rebundleOf' = <<>>
    /\ opStart' = [b |-> b, stash |-> stash]
    /\ nFetch' = 0 /\ nVCop' = 0 /\ nOps' = nOps + 1
    /\ EnterBundle(cs, kf[1], kf[2], mk, "Bundle", FALSE, TRUE)
    /\ UNCHANGED <<b, stash, down, roots0>>

\* A caller hands the chain of a bundle Bundle just returned in Optimal flavor
\* back to Bundle, once, with the same key and flavor.
Rebundle ==
  \E mk \in MkdirOutcomes :
    /\ pc = "done" /\ rebundleOf = <<>>
    /\ op = "Bundle" /\ ret.bundle /\ flavor = "optimal"
    /\ certs' = ret.chain /\ rebundleOf' = ret.chain
    /\ dialError' = FALSE /\ dials' = 0 /\ handshake' = NoHandshake
    /\ opStart' = [b |-> b, stash |-> stash]
    /\ nFetch' = 0 /\ nVCop' = 0
    /\ EnterBundle(ret.chain, key, flavor, mk, "Bundle", FALSE, TRUE)
    /\ UNCHANGED <<b, stash, down, roots0, op, key, flavor, nOps>>

\* BundleFromRemote calls Bundle(certs, nil, Ubiquitous) after its walk.
BundleBody ==
  \E mk \in MkdirOutcomes :
    /\ pc = "bundle"
    /\ EnterBundle(certs, key, flavor, mk, op, dialError, FALSE)
    /\ UNCHANGED <<b, stash, down, op, certs, key, flavor, dialError, roots0,
                   opStart, nFetch, nVCop, dials, handshake, rebundleOf, nOps>>

\* The top-level call has returned and its result is dropped.
Return ==
  /\ pc = "done"
  /\ pc' = "idle" /\ op' = "none"
  /\ certs' = <<>> /\ key' = NoKey /\ flavor' = ""
  /\ chain' = <<>> /\ seen' = {} /\ foundChains' = 0 /\ ctx' = "none"
  /\ dialError' = FALSE /\ ret' = NoRet
  /\ opStart' = [b |-> b, stash |-> stash]
  /\ atBundle' = [b |-> b, stash |-> stash, nFetch |-> 0, nVCop |-> 0]
  /\ fetchLog' = <<>> /\ fetchNew' = <<>> /\ walkLen' = 0 /\ nVC' = 0 /\ nFetch' = 0 /\ nVCop' = 0
  /\ nVerify' = 0
  /\ firstErr' = "none" /\ walkRet' = "none" /\ secondErr' = "none"
  /\ dials' = 0 /\ handshake' = NoHandshake /\ rebundleOf' = <<>>
  /\ UNCHANGED <<b, stash, stashDir, down, roots0, nOps>>

\* Whether verifyChain on chain would write a stash file.
writesFrom(bb, ch, k) ==
  verifyChainFrom(bb, {}, ch, k, TRUE).stash # {}

WriteOutcomes == IF writesFrom(b, chain, 1) THEN BOOLEAN ELSE {TRUE}

\* One iteration of the loop of fetchIntermediates with a chain that is not
\* empty: verifyChain, then the AIA URLs of the head, then a step back.
walkAfterVerify(vr, w) ==
  [b |-> vr.b, stash |-> vr.stash,
   foundChains |-> IF vr.ok THEN foundChains + 1 ELSE foundChains,
   seen |-> w.seen, log |-> w.log, advanced |-> w.advanced,
   chain |-> IF w.advanced THEN <<w.crt>> \o chain ELSE Tail(chain)]

walkHead(vr) ==
  walkAfterVerify(vr,
    IF vr.ok
    THEN [advanced |-> FALSE, crt |-> chain[1], seen |-> seen, log |-> <<>>]
    ELSE walkAIA(Cert[chain[1].Cert].urls, 1, seen, down, <<>>))

walkIteration(wok) == walkHead(verifyChain(b, stash, chain, wok))

WalkStep ==
  /\ pc = "walk" /\ chain # <<>>
  /\ \E wok \in WriteOutcomes : \E n \in {walkIteration(wok)} :
       /\ b' = n.b /\ stash' = n.stash
       /\ foundChains' = n.foundChains
       /\ seen' = n.seen /\ chain' = n.chain
       /\ fetchLog' = fetchLog \o n.log
       /\ fetchNew' = fetchNew \o [i \in 1..Len(n.log) |-> n.advanced /\ i = Len(n.log)]
       /\ nFetch' = nFetch + Len(n.log)
       /\ nVC' = nVC + 1 /\ nVCop' = nVCop + 1
  /\ UNCHANGED <<stashDir, down, pc, op, certs, key, flavor, ctx, dialError, ret,
                 roots0, opStart, atBundle, walkLen, nVerify, firstErr, walkRet,
                 secondErr, dials, handshake, rebundleOf, nOps>>

\* What fetchIntermediates returns when its chain is empty.
walkResult == IF foundChains = 0 THEN "UnknownAuthority" ELSE "nil"

\* Bundle after its call of fetchIntermediates returned nil: "verifying new chain".
bundleSecond(v) ==
  IF v.err # "nil"
  THEN [ret |-> Failure("VerifyFailed"), second |-> v.err]
  ELSE [ret |-> assemble(certs, flavor, v.chains), second |-> v.err]

bundleAfterWalk == bundleSecond(Verify(certs[1], b))

\* The loop finds the chain empty: fetchIntermediates returns, and its caller
\* goes on: BundleFromRemote calls Bundle, Bundle verifies again or fails.
WalkExit ==
  /\ pc = "walk" /\ chain = <<>>
  /\ IF ctx = "remote"
     THEN /\ pc' = "bundle"
          /\ UNCHANGED <<ret, walkRet, secondErr, nVerify>>
     ELSE /\ pc' = "done"
          /\ walkRet' = walkResult
          /\ IF walkResult # "nil"
             THEN /\ ret' = Returned(Failure("VerifyFailed"), op, dialError)
                  /\ UNCHANGED <<secondErr, nVerify>>
             ELSE \E a \in {bundleAfterWalk} :
                  /\ ret' = Returned(a.ret, op, dialError)
                  /\ secondErr' = a.second
                  /\ nVerify' = nVerify + 1
  /\ UNCHANGED <<b, stash, stashDir, down, op, certs, key, flavor, chain, seen,
                 foundChains, ctx, dialError, roots0, opStart, atBundle, fetchLog, fetchNew,
                 walkLen, nVC, nFetch, nVCop, firstErr, dials, handshake, rebundleOf,
                 nOps>>

\* Whether the rigid handshake can succeed: the peer's chain verifies against the
\* root pool with the certificates the peer sent as intermediates.
handshakeVerifies(peer) ==
  Verify(peer[1], [RootPool |-> b.RootPool, IntermediatePool |-> Tail(peer)]).err = "nil"

\* BundleFromRemote(serverName, ip), to its return or to the loop of
\* fetchIntermediates: the server answers with the chain peer; d1 and d2 say
\* whether the first and the second tls.Dial succeed, host whether
\* VerifyHostname does.
CallBundleFromRemote ==
  \E peer \in SeqsUpTo(CertIds, MaxCerts) \ {<<>>}, d1, d2, host \in BOOLEAN,
     mk \in MkdirOutcomes :
    LET w == enterWalk(peer, mk)
        dialed == d1 \/ d2
    IN
    /\ pc = "idle" /\ nOps < MaxOps
    /\ d1 => (d2 /\ host /\ handshakeVerifies(peer))
    /\ ~dialed => (host /\ peer = <<"R1">>)
    /\ op' = "BundleFromRemote"
    /\ certs' = IF dialed THEN peer ELSE <<>>
    /\ key' = NoKey /\ flavor' = "ubiquitous"
    /\ rebundleOf' = <<>>
    /\ opStart' = [b |-> b, stash |-> stash]
    /\ atBundle' = [b |-> b, stash |-> stash, nFetch |-> 0, nVCop |-> 0]
    /\ foundChains' = 0 /\ fetchLog' = <<>> /\ fetchNew' = <<>> /\ nVC' = 0 /\ nFetch' = 0 /\ nVCop' = 0
    /\ nVerify' = 0
    /\ firstErr' = "none" /\ walkRet' = "none" /\ secondErr' = "none"
    /\ nOps' = nOps + 1
    /\ dialError' = ~d1
    /\ dials' = IF d1 THEN 1 ELSE 2
    /\ handshake' = [first    |-> IF d1 THEN "ok" ELSE "failed",
                     second   |-> IF d1 THEN "none" ELSE IF d2 THEN "ok" ELSE "failed",
                     hostname |-> IF ~dialed THEN "none"
                                  ELSE IF host THEN "ok" ELSE "mismatch"]
    /\ IF ~dialed
       THEN /\ pc' = "done" /\ ret' = Failure("DialError")
            /\ chain' = <<>> /\ seen' = {} /\ ctx' = "none" /\ walkLen' = 0
            /\ UNCHANGED stashDir
       ELSE IF ~host
       THEN /\ pc' = "done" /\ ret' = Failure("VerifyFailed")
            /\ chain' = <<>> /\ seen' = {} /\ ctx' = "none" /\ walkLen' = 0
            /\ UNCHANGED stashDir
       ELSE /\ pc' = IF w.entered THEN "walk" ELSE "bundle"
            /\ ret' = NoRet
            /\ stashDir' = w.stashDir
            /\ chain' = w.chain /\ seen' = w.seen /\ ctx' = "remote"
            /\ walkLen' = Len(peer)
    /\ UNCHANGED <<b, stash, down, roots0>>

Next ==
  \/ CallBundle
  \/ CallBundleFromRemote
  \/ Rebundle
  \/ BundleBody
  \/ WalkStep
  \/ WalkExit
  \/ Return

Spec == Init /\ [][Next]_vars

\* The loop of fetchIntermediates and Bundle run on once they are called.
FairSpec == Spec /\ WF_vars(BundleBody) /\ WF_vars(WalkStep) /\ WF_vars(WalkExit)

(***************************************************************************)
(* The root pool.                                                          *)
(***************************************************************************)
\* C1: in every reachable state the root pool is what NewBundlerFromPEM made
\* it, whatever certificates callers supplied or the walk fetched.
RootPoolNeverMutated == b.RootPool = roots0

\* A walk fetched the self-signed S and verifyChain grew the intermediate pool.
RootPoolKeptThroughWalk ==
  /\ "http://x/u3" \in Range(fetchLog)
  /\ b.IntermediatePool # opStart.b.IntermediatePool
  /\ b.RootPool = roots0

\* C2 as stated: when Bundle succeeds, no certificate of the returned chain is a
\* member of the root pool.
ChainHoldsNoRootPoolMember ==
  (pc = "done" /\ ret.bundle) => Range(ret.chain) \cap Range(b.RootPool) = {}

\* C2, amended: when Bundle succeeds and every certificate of the root pool is
\* self-signed, no certificate of the returned chain is a member of the root
\* pool; the chain is the selected chain without its last element, which is a
\* member of the root pool.
ChainHoldsNoSelfSignedRoot ==
  (pc = "done" /\ ret.bundle) =>
    /\ ret.chain = [i \in 1..(Len(ret.full) - 1) |-> ret.full[i]]
    /\ ret.full[Len(ret.full)] \in Range(b.RootPool)
    /\ (\A r \in Range(b.RootPool) : isSelfSigned(r))
         => Range(ret.chain) \cap Range(b.RootPool) = {}

\* A bundle over an intermediate, from a Bundler whose roots are all self-signed
\* and one of whose roots is in the intermediate pool as well.
ChainBelowSelfSignedRoot ==
  /\ pc = "done" /\ ret.bundle /\ Len(ret.chain) >= 2
  /\ \A r \in Range(b.RootPool) : isSelfSigned(r)
  /\ Range(b.RootPool) \cap Range(b.IntermediatePool) # {}

(***************************************************************************)
(* The walk of fetchIntermediates.                                         *)
(***************************************************************************)
\* C3: the loop of fetchIntermediates eventually exits with an empty chain,
\* also when the AIA URLs form a cycle, and every iteration either removes the
\* head of the chain or prepends one certificate whose signature was not in seen.
WalkTerminates ==
  /\ (pc = "walk") ~> (pc # "walk" /\ chain = <<>>)
  /\ [][(pc = "walk" /\ chain # <<>>) =>
          \/ chain' = Tail(chain)
          \/ /\ Tail(chain') = chain
             /\ Cert[chain'[1].Cert].sig \notin seen
             /\ Cert[chain'[1].Cert].sig \in seen']_vars

\* A walk went round the cycle u3 -> S -> u4 -> LB and has returned.
WalkRoundCycleDone ==
  /\ pc # "walk" /\ chain = <<>>
  /\ "http://x/u3" \in Range(fetchLog) /\ "http://x/u4" \in Range(fetchLog)

\* The certificates an AIA URL of c answers with, and the certificates
\* reachable from the set S through AIA URLs.
issuersByAIA(c) == {Serves[Cert[c].urls[i]] : i \in 1..Len(Cert[c].urls)}

RECURSIVE reachableFrom(_)
reachableFrom(S) ==
  LET T == S \cup UNION {issuersByAIA(c) : c \in S}
  IN  IF T = S THEN S ELSE reachableFrom(T)

\* N: the size of the reachable issuer graph of the list cs, its own entries
\* and the other certificates reachable from them.
graphSize(cs) == Len(cs) + Cardinality(reachableFrom(Range(cs)) \ Range(cs))

\* Whether a walk of fetchIntermediates on certs has begun in this call.
walkBegun == ctx # "none"

\* The fetches of this walk that returned a certificate it had not seen.
newFetches == {i \in 1..Len(fetchLog) : fetchNew[i]}

\* C4 as stated: one walk performs at most N fetches, failed fetches and
\* fetches of a seen certificate counted, and at most 2N calls of verifyChain.
WalkWithinGraphSize ==
  walkBegun => /\ Len(fetchLog) <= graphSize(certs)
               /\ nVC <= 2 * graphSize(certs)

\* C4, amended: one walk performs at most N fetches that return a certificate it
\* had not seen, and at most 2N calls of verifyChain; the fetches that fail or
\* return a seen certificate are not bounded by N.
WalkNewFetchesWithinGraphSize ==
  walkBegun => /\ Cardinality(newFetches) <= graphSize(certs)
               /\ nVC <= 2 * graphSize(certs)

\* A walk that is over fetched two new certificates among its fetches.
WalkFetchedTwoNew ==
  /\ walkBegun /\ pc # "walk" /\ chain = <<>>
  /\ Cardinality(newFetches) >= 2 /\ Len(fetchLog) > Cardinality(newFetches)
  /\ nVC >= 5

\* C5 as stated: within one walk no AIA URL is requested more than once.
NoURLFetchedTwice ==
  \A i, j \in 1..Len(fetchLog) : fetchLog[i] = fetchLog[j] => i = j

\* C5, amended: within one walk no AIA URL whose fetch returned a certificate
\* the walk had not seen is requested again; a URL whose fetch failed or
\* returned a seen certificate is not marked and may be requested again.
NoNewURLFetchedTwice ==
  \A i, j \in 1..Len(fetchLog) :
    (fetchNew[i] /\ fetchLog[i] = fetchLog[j]) => i = j

\* A walk stepped back to LB after it had fetched S from u3: u1 is requested a
\* second time, u3 is not.
WalkBacktracked ==
  /\ \E i, j \in 1..Len(fetchLog) : i < j /\ fetchLog[i] = fetchLog[j]
  /\ \E i \in newFetches : fetchLog[i] = "http://x/u3"
  /\ \E i \in newFetches : fetchLog[i] = "http://x/u2"

(***************************************************************************)
(* Bundle's checks of its leaf.                                            *)
(***************************************************************************)
\* Whether the top-level call under way has entered Bundle on certs.
bundleEntered == op = "Bundle" \/ (op = "BundleFromRemote" /\ ctx # "none")

selfSignedLeaf == certs # <<>> /\ isSelfSigned(certs[1])

\* C6 as stated: whenever the leaf of a bundling operation is self-signed, the
\* operation fails with SelfSigned, returns no bundle and leaves the
\* intermediate pool as it was before the call.
SelfSignedLeafRejected ==
  (pc = "done" /\ selfSignedLeaf) =>
    /\ ret.err = "SelfSigned" /\ ~ret.bundle
    /\ b.IntermediatePool = opStart.b.IntermediatePool

\* C6, amended: whenever the leaf is self-signed and passes the key check (its
\* key is RSA or ECDSA and matches the private key, if one is supplied), Bundle
\* fails with SelfSigned and returns no bundle; a direct call of Bundle leaves
\* the intermediate pool as it was, while BundleFromRemote, which gets to Bundle
\* once a dial and the hostname check succeeded, may have added certificates of
\* the peer chain to the pool in its own fetchIntermediates before.
SelfSignedLeafRejectedAfterKeyCheck ==
  (pc = "done" /\ bundleEntered /\ selfSignedLeaf
     /\ pairingCheck(certs[1], key) = "nil") =>
    /\ ret.err = "SelfSigned" /\ ~ret.bundle
    /\ nVerify = 0 /\ b = atBundle.b
    /\ op = "Bundle" => b.IntermediatePool = opStart.b.IntermediatePool

\* BundleFromRemote failed with SelfSigned after its walk added a certificate of
\* the peer chain to the intermediate pool.
SelfSignedAfterPoolGrew ==
  /\ pc = "done" /\ op = "BundleFromRemote" /\ selfSignedLeaf
  /\ ret.err = "SelfSigned"
  /\ b.IntermediatePool # opStart.b.IntermediatePool

\* Nothing happened since Bundle was entered: no Verify, no fetch, no
\* verifyChain, no pool insertion, no stash write.
untouchedSinceEntry ==
  /\ nVerify = 0 /\ nFetch = atBundle.nFetch /\ nVCop = atBundle.nVCop
  /\ b = atBundle.b /\ stash = atBundle.stash

\* C7: a key of another type than the leaf's, or of another public value, makes
\* Bundle fail with KeyMismatch; a leaf whose key is neither RSA nor ECDSA makes
\* it fail with NotRSAOrECC, with a key or without; and either error is
\* returned before any Verify, fetch, pool insertion or stash write.
KeyCheckComesFirst ==
  (pc = "done" /\ bundleEntered /\ certs # <<>>) =>
    /\ (Cert[certs[1]].pka \notin {"RSA", "ECDSA"}) =>
         (ret.err = "NotRSAOrECC" /\ ~ret.bundle /\ untouchedSinceEntry)
    /\ (/\ key # NoKey
        /\ Cert[certs[1]].pka \in {"RSA", "ECDSA"}
        /\ (key.type # Cert[certs[1]].pka \/ key.pub # Cert[certs[1]].pub)) =>
         (ret.err = "KeyMismatch" /\ ~ret.bundle /\ untouchedSinceEntry)
    /\ ret.err \in {"KeyMismatch", "NotRSAOrECC"} => untouchedSinceEntry

\* Bundle refused an RSA key whose modulus is not the RSA leaf's, the leaf
\* coming with a further certificate.
KeyOfOtherValueRefused ==
  /\ pc = "done" /\ op = "Bundle" /\ Len(certs) = 2
  /\ key.type = "RSA" /\ Cert[certs[1]].pka = "RSA" /\ key.pub # Cert[certs[1]].pub
  /\ ret.err = "KeyMismatch"

(***************************************************************************)
(* Bundle's two verifications.                                             *)
(***************************************************************************)
\* C8: Bundle calls fetchIntermediates only after its first Verify failed with
\* UnknownAuthority; a first Verify that succeeds is followed by no fetch and
\* no pool insertion; any other error of it gives VerifyFailed without a walk;
\* a walk that returns nil is followed by exactly one more Verify; a walk that
\* fails, or a second Verify that fails, gives VerifyFailed.
WalkOnlyAfterUnknownAuthority ==
  /\ (ctx = "bundle" \/ walkRet # "none") =>
        (firstErr = "UnknownAuthority" /\ nVerify >= 1)
  /\ (pc = "walk" /\ ctx = "bundle") => (nVerify = 1 /\ secondErr = "none")
  /\ (pc = "done" /\ firstErr = "nil") =>
        /\ ret.bundle /\ nVerify = 1 /\ walkRet = "none"
        /\ nFetch = atBundle.nFetch /\ nVCop = atBundle.nVCop /\ b = atBundle.b
  /\ (pc = "done" /\ firstErr \notin {"none", "nil", "UnknownAuthority"}) =>
        /\ ret.err = "VerifyFailed" /\ ~ret.bundle /\ nVerify = 1
        /\ walkRet = "none"
        /\ nFetch = atBundle.nFetch /\ nVCop = atBundle.nVCop /\ b = atBundle.b
  /\ (pc = "done" /\ walkRet = "nil") =>
        /\ nVerify = 2 /\ secondErr # "none"
        /\ secondErr = "nil" => (ret.bundle /\ ret.err = "nil")
        /\ secondErr # "nil" => (ret.err = "VerifyFailed" /\ ~ret.bundle)
  /\ (pc = "done" /\ walkRet \notin {"none", "nil"}) =>
        /\ ret.err = "VerifyFailed" /\ ~ret.bundle
        /\ nVerify = 1 /\ secondErr = "none"

\* A walk returned nil, the leaf being known already, and the second Verify
\* failed.
SecondVerifyFailed ==
  /\ pc = "done" /\ walkRet = "nil" /\ secondErr = "UnknownAuthority"
  /\ ret.err = "VerifyFailed"

(***************************************************************************)
(* is_rebundled.                                                           *)
(***************************************************************************)
\* C9: for every bundle Bundle returns, is_rebundled is true if and only if the
\* chain and the input list differ in length or, at some index of both, in the
\* signature of the certificate; an input that is the selected chain without
\* its root gives false.
RebundledIffDifferent ==
  (pc = "done" /\ ret.bundle) =>
    /\ ret.rebundled <=>
         \/ Len(ret.chain) # Len(certs)
         \/ \E i \in (1..Len(ret.chain)) \cap (1..Len(certs)) :
              Cert[ret.chain[i]].sig # Cert[certs[i]].sig
    /\ certs = ret.chain => ~ret.rebundled

\* Bundle was given a leaf with its intermediate and selected that very chain.
InputIsTheSelectedChain ==
  /\ pc = "done" /\ ret.bundle /\ rebundleOf = <<>>
  /\ Len(certs) = 2 /\ certs = ret.chain /\ ~ret.rebundled

\* C10: a chain Bundle returned in Optimal flavor, handed back to Bundle with
\* the same key and flavor on the same Bundler, comes back as the same chain
\* with is_rebundled false.
OptimalIsIdempotent ==
  (pc = "done" /\ rebundleOf # <<>>) =>
    /\ ret.bundle /\ ret.err = "nil"
    /\ ret.chain = rebundleOf
    /\ ~ret.rebundled

\* The chain of a leaf and the intermediate the first call had fetched and
\* stashed was handed back.
FetchedChainRebundled ==
  /\ pc = "done" /\ rebundleOf # <<>> /\ Len(rebundleOf) >= 2
  /\ stash # {} /\ ret.bundle

(***************************************************************************)
(* The selection of the chain.                                             *)
(***************************************************************************)
\* The chains the verifier returned to the Bundle call that returned a bundle:
\* the pools have not changed since that call of Verify.
verifierChains == Verify(certs[1], b).chains

candidateA == <<"LA", "IA", "R1">>

candidateB == <<"LA", "R2">>

\* C12: in Ubiquitous flavor, and for every flavor value other than "optimal",
\* the selected chain has the greatest CrossPlatformUbiquity of the chains the
\* verifier returned, also when a shorter chain exists: of the candidates (A)
\* and (B) Ubiquitous selects (A) and Optimal selects (B).
UbiquitousSelectsMostTrusted ==
  (pc = "done" /\ ret.bundle) =>
    \E chains \in {verifierChains} :
      /\ flavor # "optimal" =>
            /\ ret.full \in Range(chains)
            /\ \A i \in 1..Len(chains) :
                 CrossPlatformUbiquity(chains[i]) <= CrossPlatformUbiquity(ret.full)
      /\ {candidateA, candidateB} \subseteq Range(chains) =>
            ret.full = IF flavor = "optimal" THEN candidateB ELSE candidateA

\* A flavor that is neither name selected (A) although the shorter (B) was
\* among the verifier's chains.
LongerChainSelected ==
  /\ pc = "done" /\ ret.bundle /\ flavor = ""
  /\ ret.full = candidateA /\ candidateB \in Range(verifierChains)
  /\ Len(UntrustedPlatforms("R2")) = 1 /\ UntrustedPlatforms("R1") = <<>>
  /\ Cert["R1"].hash = "SHA1" /\ Cert["R2"].hash = "SHA2"

(***************************************************************************)
(* The hash ubiquity of a chain and the status of a bundle.                *)
(***************************************************************************)
\* The certificate lists at hand: the input of the call and the selected chain.
listsAtHand == {certs, ret.full} \ {<<>>}

mixesHashes(ch) ==
  /\ \E i \in 1..Len(ch) : Cert[ch[i]].hash = "SHA1"
  /\ \E i \in 1..Len(ch) : Cert[ch[i]].hash = "SHA2"

rootUntrusted == \E n \in Range(PlatformNames) : ~Trusts(n, ret.full[Len(ret.full)])

\* Whether a certificate of the returned chain expires within 30 days.
chainExpiring == \E i \in 1..Len(ret.chain) : Cert[ret.chain[i]].notAfter < ExpiringDays

hashesOf(ch) == {Cert[ch[i]].hash : i \in 1..Len(ch)}

\* The messages Bundle put in the status (BundleFromRemote may append one).
bundleMessages == SelectSeq(ret.messages, LAMBDA m : m # dialErrorMessage)

\* C14 as stated: the not-ubiquitous bit is set if and only if the selected
\* chain holds a SHA-1-signed certificate or a platform does not trust its
\* root; a selected chain of SHA-2-signed certificates only, its root trusted
\* by every platform and no certificate expiring, has status code 0 and no
\* messages.
NotUbiquitousIffSHA1OrUntrusted ==
  (pc = "done" /\ ret.bundle) =>
    /\ "not-ubiquitous" \in ret.code <=> ("SHA1" \in hashesOf(ret.full) \/ rootUntrusted)
    /\ (hashesOf(ret.full) = {"SHA2"} /\ ~rootUntrusted /\ ~chainExpiring) =>
         (ret.code = {} /\ bundleMessages = <<>>)

\* C14, amended: the not-ubiquitous bit is set if and only if the selected
\* chain, its root included, holds a certificate that is not SHA-1-signed
\* (ChainHashUbiquity <= SHA2Ubiquity) or a platform does not trust its root; a
\* selected chain of SHA-2-signed certificates only, its root trusted by every
\* platform and no certificate of the returned chain expiring, has the
\* not-ubiquitous bit alone and the SHA-2 warning as its only message; a chain
\* of SHA-1-signed certificates only, under the same conditions, has status
\* code 0 and no messages.
NotUbiquitousIffSHA2OrUntrusted ==
  (pc = "done" /\ ret.bundle) =>
    /\ "not-ubiquitous" \in ret.code <=>
         (hashesOf(ret.full) # {"SHA1"} \/ rootUntrusted)
    /\ (hashesOf(ret.full) = {"SHA2"} /\ ~rootUntrusted /\ ~chainExpiring) =>
         (ret.code = {"not-ubiquitous"} /\ bundleMessages = <<sha2Warning>>)
    /\ (hashesOf(ret.full) = {"SHA1"} /\ ~rootUntrusted /\ ~chainExpiring) =>
         (ret.code = {} /\ bundleMessages = <<>>)

\* A bundle of SHA-2-signed certificates under a root every platform trusts,
\* nothing expiring, came back with the not-ubiquitous bit.
SHA2ChainFlagged ==
  /\ pc = "done" /\ ret.bundle
  /\ hashesOf(ret.full) = {"SHA2"} /\ ~rootUntrusted /\ ~chainExpiring
  /\ ret.code = {"not-ubiquitous"} /\ bundleMessages = <<sha2Warning>>

(***************************************************************************)
(* The expiring bit.                                                       *)
(***************************************************************************)
\* The 1-based positions, in order, of the certificates of ch with NotAfter
\* within 30 x 24 hours.
expiringPositions(ch) ==
  SelectSeq([i \in 1..Len(ch) |-> i], LAMBDA i : Cert[ch[i]].notAfter < ExpiringDays)

\* What the status of the returned bundle says of the positions ps of ch.
statusReports(ch, ps) ==
  /\ "expiring" \in ret.code <=> ps # <<>>
  /\ ret.skis = [k \in 1..Len(ps) |-> HexUpper(Cert[ch[ps[k]]].ski)]
  /\ \A k \in 1..Len(ret.skis) :
       ret.skis[k] \in {"AB01", "AB02", "AB04", "AB05", "AB06", "AB09", "AB0A"}
  /\ IF ps = <<>>
     THEN \A k \in 1..Len(ret.messages) : ret.messages[k].kind # "expiring"
     ELSE ret.messages[1] = [kind |-> "expiring", detail |-> ps]

\* C15 as stated: the expiring bit is set if and only if some certificate of
\* the selected chain has NotAfter within 30 x 24 hours; expiring_SKIs holds the
\* SubjectKeyIds of exactly those certificates in uppercase hex, in chain order,
\* and the expiry message names exactly their 1-based positions.
ExpiringOfSelectedChainReported ==
  (pc = "done" /\ ret.bundle) => statusReports(ret.full, expiringPositions(ret.full))

\* C15, amended: the same of the returned chain, which is the selected chain
\* without its root: a root that expires within 30 x 24 hours sets no bit, adds
\* no SubjectKeyId and is named by no message.
ExpiringOfReturnedChainReported ==
  (pc = "done" /\ ret.bundle) => statusReports(ret.chain, expiringPositions(ret.chain))

\* A bundle whose intermediate, 15 days from its NotAfter, is reported at
\* position 2 with its SubjectKeyId.
ExpiringIntermediateReported ==
  /\ pc = "done" /\ ret.bundle /\ Len(ret.chain) = 2
  /\ Cert[ret.chain[2]].notAfter = 15
  /\ "expiring" \in ret.code /\ ret.skis = <<"AB02">>
  /\ ret.messages[1] = [kind |-> "expiring", detail |-> <<2>>]

(***************************************************************************)
(* BundleFromRemote's dials.                                               *)
(***************************************************************************)
\* C16: BundleFromRemote dials at most twice, the second time only if the first
\* handshake failed; it returns DialError if and only if both dials fail; after
\* a failed first dial and a second one that succeeds, a bundle comes back with
\* no error and with the handshake error among its messages, and a failure of
\* the bundling comes back as that error with no bundle; the hostname check
\* comes before any fetch or pool insertion, and a mismatch gives VerifyFailed.
DialsTwiceAtMost ==
  op = "BundleFromRemote" =>
    /\ dials \in {1, 2}
    /\ dials = 2 <=> handshake.first = "failed"
    /\ handshake.second # "none" <=> handshake.first = "failed"
    /\ handshake.hostname # "ok" =>
         (nFetch = 0 /\ nVCop = 0 /\ b = opStart.b /\ stash = opStart.stash)
    /\ pc = "done" =>
         /\ ret.err = "DialError" <=> handshake.second = "failed"
         /\ handshake.second = "failed" => ~ret.bundle
         /\ handshake.hostname = "mismatch" => (ret.err = "VerifyFailed" /\ ~ret.bundle)
         /\ ret.bundle =>
              /\ ret.err = "nil"
              /\ dialErrorMessage \in Range(ret.messages) <=> handshake.first = "failed"
         /\ ~ret.bundle =>
              /\ ret.err \in {"DialError", "VerifyFailed", "SelfSigned", "NotRSAOrECC"}
              /\ ret.messages = <<>>
              /\ handshake.hostname = "ok" =>
                   ret.err \in {"VerifyFailed", "SelfSigned", "NotRSAOrECC"}

\* The rigid handshake failed, the second dial salvaged the peer chain, and the
\* bundle came back with the handshake error as a message.
SoftDialErrorReported ==
  /\ op = "BundleFromRemote" /\ pc = "done" /\ dials = 2
  /\ handshake.second = "ok" /\ ret.bundle /\ ret.err = "nil"
  /\ dialErrorMessage \in Range(ret.messages)

(***************************************************************************)
(* The stash.                                                              *)
(***************************************************************************)
\* The loop of fetchIntermediates run to its end from the Bundler bb, the chain
\* ch and the set sn, every stash write succeeding: the Bundler it leaves and
\* the number of chains it found.
RECURSIVE runWalk(_, _, _, _)
runWalk(bb, ch, sn, found) ==
  IF ch = <<>> THEN [b |-> bb, found |-> found]
  ELSE
    LET vr == verifyChain(bb, {}, ch, TRUE)
    IN  IF vr.ok THEN runWalk(vr.b, Tail(ch), sn, found + 1)
        ELSE
          LET w == walkAIA(Cert[ch[1].Cert].urls, 1, sn, down, <<>>)
          IN  IF w.advanced
              THEN runWalk(vr.b, <<w.crt>> \o ch, w.seen, found)
              ELSE runWalk(vr.b, Tail(ch), w.seen, found)

\* Bundle(cs, k, f) run to its return from the Bundler bb, the stash directory
\* there or created and every stash write succeeding: what it returns and the
\* Bundler it leaves.
runBundle(bb, cs, k, f) ==
  IF cs = <<>> THEN [ret |-> Failure("panic"), b |-> bb]
  ELSE IF pairingCheck(cs[1], k) # "nil"
  THEN [ret |-> Failure(pairingCheck(cs[1], k)), b |-> bb]
  ELSE IF isSelfSigned(cs[1]) THEN [ret |-> Failure("SelfSigned"), b |-> bb]
  ELSE
    LET v == Verify(cs[1], bb)
    IN  IF v.err = "nil" THEN [ret |-> assemble(cs, f, v.chains), b |-> bb]
        ELSE IF v.err # "UnknownAuthority"
        THEN [ret |-> Failure("VerifyFailed"), b |-> bb]
        ELSE
          LET w  == runWalk(bb, initialChain(cs, 0), initialSeen(cs), 0)
              v2 == Verify(cs[1], w.b)
          IN  IF w.found = 0 \/ v2.err # "nil"
              THEN [ret |-> Failure("VerifyFailed"), b |-> w.b]
              ELSE [ret |-> assemble(cs, f, v2.chains), b |-> w.b]

\* Whether the call of Bundle that has returned gave the result, and left the
\* intermediate pool and KnownIssuers, of the run in which all stash I/O
\* succeeds.
asWithWorkingStash ==
  \E r \in {runBundle(opStart.b, certs, key, flavor)} :
    /\ ret = r.ret
    /\ b.IntermediatePool = r.b.IntermediatePool
    /\ b.KnownIssuers = r.b.KnownIssuers

\* C17: for the same inputs, pools and network answers, Bundle (and with it
\* fetchIntermediates and verifyChain) returns the same result and leaves the
\* same intermediate pool and KnownIssuers whether writing a stash file and
\* creating the stash directory succeed or fail.
StashFailuresAbsorbed ==
  (pc = "done" /\ op = "Bundle") => asWithWorkingStash

\* The part that holds: the same, as long as the stash directory exists or
\* can be created.
StashWriteFailuresAbsorbed ==
  (pc = "done" /\ op = "Bundle" /\ walkRet # "mkdir") => asWithWorkingStash

(***************************************************************************)
(* What a top-level call returns.                                          *)
(***************************************************************************)
\* The categorized errors of the bundling operations.
CategorizedErrors ==
  {"KeyMismatch", "NotRSAOrECC", "SelfSigned", "VerifyFailed", "DialError"}

\* C18: every top-level call ends by returning exactly one of a bundle and a
\* categorized error, a bundle with a nil error or no bundle with an error, a
\* call of Bundle with an empty certificate list included.
ReturnsBundleOrError ==
  pc = "done" =>
    \/ ret.bundle /\ ret.err = "nil"
    \/ ~ret.bundle /\ ret.err \in CategorizedErrors

(***************************************************************************)
(* What verifyChain admits.                                                *)
(***************************************************************************)
\* The loop is about to call verifyChain on a chain whose top is a self-signed
\* certificate that is not known and passes verification.
selfSignedTopVerifies ==
  /\ pc = "walk" /\ chain # <<>>
  /\ isSelfSigned(chain[1].Cert)
  /\ Cert[chain[1].Cert].sig \notin b.KnownIssuers
  /\ Verify(chain[1].Cert, b).err = "nil"

\* The certificates that have a file in the stash st.
stashed(st) == {f.Cert : f \in st}

\* C19 as stated: a self-signed certificate at the top of the chain that passes
\* verification is admitted into the intermediate pool and not written to the
\* stash; no self-signed certificate is ever written to the stash.
SelfSignedTopAdmittedNotStashed ==
  /\ [](\A c \in stashed(stash) : ~isSelfSigned(c))
  /\ [][selfSignedTopVerifies =>
          /\ chain[1].Cert \in Range(b'.IntermediatePool)
          /\ chain[1].Cert \notin stashed(stash')]_vars

\* C19, amended: a self-signed certificate at the top of the chain that is
\* not known and passes verification is skipped, neither inserted into the
\* intermediate pool nor marked known nor written to the stash; a self-signed
\* certificate is written to the stash only from a position below the top,
\* where verifyChain treats it as any other certificate: it is inserted into
\* the pool, marked known and stashed under its file name.
SelfSignedTopSkipped ==
  /\ [][(selfSignedTopVerifies
           /\ \A k \in 2..Len(chain) : chain[k].Cert # chain[1].Cert) =>
          /\ chain[1].Cert \in Range(b'.IntermediatePool)
               <=> chain[1].Cert \in Range(b.IntermediatePool)
          /\ Cert[chain[1].Cert].sig \notin b'.KnownIssuers
          /\ chain[1].Cert \notin stashed(stash')]_vars
  /\ [][\A c \in stashed(stash') \ stashed(stash) :
          isSelfSigned(c) =>
            /\ \E k \in 2..Len(chain) : chain[k].Cert = c /\ chain[k].Name # NoName
            /\ Cert[c].sig \notin b.KnownIssuers
            /\ c \in Range(b'.IntermediatePool)
            /\ Cert[c].sig \in b'.KnownIssuers]_vars

\* The self-signed S, skipped while it was the top of the chain, was inserted
\* and stashed once a fetched certificate stood above it.
SelfSignedStashedBelowTop ==
  /\ pc = "walk" /\ Len(chain) >= 2
  /\ \E k \in 2..Len(chain) :
       /\ isSelfSigned(chain[k].Cert)
       /\ [Cert |-> chain[k].Cert, Name |-> chain[k].Name] \in stash
       /\ chain[k].Cert \in Range(b.IntermediatePool)
       /\ chain[k].Cert \notin Range(opStart.b.IntermediatePool)

\* The Bundler with only the first n certificates of the intermediate pool pl.
withPoolPrefix(bb, pl, n) == [bb EXCEPT !.IntermediatePool = SubSeq(pl, 1, n)]

\* c passed verification against the root pool and the intermediate pool as it
\* stood when a step from pool old to pool new reached c: just before c's own
\* insertion when the step inserted c, at some moment of the step otherwise.
verifiedThen(c, bb, old, new) ==
  LET at == {j \in Len(old) + 1..Len(new) : new[j] = c}
  IN  IF at # {}
      THEN \A j \in at : Verify(c, withPoolPrefix(bb, new, j - 1)).err = "nil"
      ELSE \E n \in Len(old)..Len(new) : Verify(c, withPoolPrefix(bb, new, n)).err = "nil"

\* C20: the intermediate pool only grows at its end, and every certificate a
\* step inserts into it, every certificate it writes to the stash and every
\* certificate whose signature it marks known had just passed verification
\* against the root pool and the intermediate pool of that moment; a
\* certificate that fails verification is not inserted, stashed or marked.
InsertedOnlyAfterVerification ==
  [][LET old == b.IntermediatePool
         new == b'.IntermediatePool
     IN  /\ Len(old) <= Len(new) /\ SubSeq(new, 1, Len(old)) = old
         /\ \A j \in Len(old) + 1..Len(new) : verifiedThen(new[j], b, old, new)
         /\ \A f \in stash' \ stash : verifiedThen(f.Cert, b, old, new)
         /\ \A c \in CertIds :
              Cert[c].sig \in b'.KnownIssuers \ b.KnownIssuers
                => verifiedThen(c, b, old, new)]_vars

\* A walk inserted, marked and stashed a verified certificate of its chain and
\* left out the certificate of the same chain that fails verification.
VerifiedInsertedFailedLeftOut ==
  /\ pc = "walk"
  /\ \E k \in 1..Len(chain) :
       /\ chain[k].Cert \in Range(b.IntermediatePool) \ Range(opStart.b.IntermediatePool)
       /\ Cert[chain[k].Cert].sig \in b.KnownIssuers \ opStart.b.KnownIssuers
       /\ chain[k].Cert \in stashed(stash) \ stashed(opStart.stash)
  /\ \E k \in 1..Len(chain) :
       /\ Verify(chain[k].Cert, b).err # "nil"
       /\ chain[k].Cert \notin Range(b.IntermediatePool)
       /\ Cert[chain[k].Cert].sig \notin b.KnownIssuers

\* The certificates the AIA fetches of this walk returned.
fetchedCerts == {Serves[fetchLog[i]] : i \in 1..Len(fetchLog)}

\* The intermediate pool holds a certificate it did not hold when the operation
\* began.
insertedThisOp == Range(b.IntermediatePool) \ Range(opStart.b.IntermediatePool)

\* C21: the leaf of a bundling operation (index 0 of the input list) is never
\* inserted into the intermediate pool; what an operation adds to the pool are
\* non-leaf input certificates and AIA-fetched certificates only.
LeafNeverInserted ==
  (bundleEntered /\ certs # <<>>) =>
    insertedThisOp \subseteq Range(Tail(certs)) \cup fetchedCerts

\* Bundle's call of fetchIntermediates returned UnknownAuthority.
chainBuildFailed == pc = "done" /\ walkRet = "UnknownAuthority"

\* C22 as stated: when fetchIntermediates returns UnknownAuthority the
\* intermediate pool, KnownIssuers and the stash are what they were before the
\* call.
FailedBuildLeavesBundlerUnchanged ==
  chainBuildFailed =>
    /\ ret.err = "VerifyFailed"
    /\ b = atBundle.b /\ stash = atBundle.stash

\* C22, amended: when fetchIntermediates returns UnknownAuthority, Bundle fails
\* with VerifyFailed and the root pool is what it was before the call; the
\* intermediate pool, KnownIssuers and the stash hold what they held before
\* the call and, besides, only input or fetched certificates that verify
\* against the two pools; they are unchanged when no such certificate exists.
FailedBuildKeepsOnlyVerified ==
  chainBuildFailed =>
    LET old   == atBundle.b.IntermediatePool
        new   == b.IntermediatePool
        added == Range(new) \ Range(old)
        met   == {c \in Range(certs) \cup fetchedCerts :
                    Cert[c].sig \notin atBundle.b.KnownIssuers}
    IN  /\ ret.err = "VerifyFailed" /\ ~ret.bundle
        /\ b.RootPool = atBundle.b.RootPool
        /\ Len(old) <= Len(new) /\ SubSeq(new, 1, Len(old)) = old
        /\ atBundle.b.KnownIssuers \subseteq b.KnownIssuers
        /\ atBundle.stash \subseteq stash
        /\ \A c \in added : c \in met /\ Verify(c, b).err = "nil"
        /\ b.KnownIssuers \ atBundle.b.KnownIssuers \subseteq {Cert[c].sig : c \in added}
        /\ stashed(stash \ atBundle.stash) \subseteq added
        /\ (\A c \in met : Verify(c, b).err # "nil")
             => b = atBundle.b /\ stash = atBundle.stash

\* A chain build failed after verifyChain had stored the certificate of the
\* input list that verifies on its own.
FailedBuildStoredVerified ==
  /\ chainBuildFailed /\ Len(certs) = 2
  /\ certs[2] \in Range(b.IntermediatePool) \ Range(atBundle.b.IntermediatePool)
  /\ Cert[certs[2]].sig \in b.KnownIssuers \ atBundle.b.KnownIssuers
  /\ certs[2] \in stashed(stash \ atBundle.stash)
  /\ Verify(certs[1], b).err = "UnknownAuthority"

====
